---------------------------- MODULE Spec2Model ----------------------------
(***************************************************************************)
(* A model of proxy.py: the ReverseProxy backend pool (backends and the    *)
(* round-robin cursor current_backend), handle_request as one coroutine    *)
(* per inbound request, the health_check loop, and the /_health handler.   *)
(* The program runs on one asyncio event loop, so a coroutine runs         *)
(* without interruption from one await to the next: each action below is   *)
(* the code between two awaits.                                            *)
(***************************************************************************)
EXTENDS Integers, Sequences, FiniteSets, TLC

(***************************************************************************)
(* Bounds of the model.                                                    *)
(***************************************************************************)
NumBackends == 2

MaxRequests == 2

Requests == 1..MaxRequests

(***************************************************************************)
(* config.json: the 'backends' list.  An entry's id is optional ("" here   *)
(* stands for an entry without the key).                                   *)
(***************************************************************************)
ConfigUrl(i) ==
    CASE i = 1 -> "http://localhost:3001"
      [] i = 2 -> "http://localhost:3002"
      [] i = 3 -> "http://localhost:3003"
      [] OTHER -> "http://localhost:3004"

ConfigId(i) ==
    CASE i = 1 -> "backend1"
      [] i = 2 -> ""
      [] i = 3 -> "backend3"
      [] OTHER -> "backend4"

Config == [i \in 1..NumBackends |-> [id |-> ConfigId(i), url |-> ConfigUrl(i)]]

(***************************************************************************)
(* Inputs: what an inbound request, a backend and a probe can be.          *)
(***************************************************************************)
Methods == {"GET", "POST"}

Paths == {"/_health", "/api"}

\* statuses a backend answers a forwarded request with
BackendStatuses == {200, 500}

\* statuses a backend answers GET /health with
ProbeStatuses == {200, 503}

\* exceptions raised by session.request before the backend's status and
\* headers have arrived
OutboundErrors == {"ServerTimeoutError", "ClientConnectorError"}

\* exceptions raised while reading the response body of the outbound call
BodyErrors == {"TimeoutError", "ClientPayloadError"}

\* exceptions raised by the inbound side (prepare, write, write_eof)
InboundErrors == {"ConnectionResetError"}

\* exceptions a probe raises
ProbeErrors == {"TimeoutError", "ClientConnectorError"}

None == 0

(***************************************************************************)
(* The exception classes involved, each with its direct base classes, and  *)
(* isinstance() as the except clauses apply it.                            *)
(***************************************************************************)
Bases(cls) ==
    CASE cls = "Exception" -> {"BaseException"}
      [] cls = "CancelledError" -> {"BaseException"}
      [] cls = "TimeoutError" -> {"Exception"}
      [] cls = "OSError" -> {"Exception"}
      [] cls = "ConnectionResetError" -> {"OSError"}
      [] cls = "ClientError" -> {"Exception"}
      [] cls = "ClientPayloadError" -> {"ClientError"}
      [] cls = "ClientConnectionError" -> {"ClientError"}
      [] cls = "ClientConnectorError" -> {"ClientConnectionError", "OSError"}
      [] cls = "ServerTimeoutError" -> {"ClientConnectionError", "TimeoutError"}
      [] OTHER -> {}

RECURSIVE IsInstance(_, _)
IsInstance(exc, cls) ==
    \/ exc = cls
    \/ \E base \in Bases(exc) : IsInstance(base, cls)

(***************************************************************************)
(* _parse_backends: one record per configured entry, in configured order,  *)
(* healthy and with no connections.                                        *)
(***************************************************************************)
ParseBackends(cfg) ==
    [i \in 1..Len(cfg) |->
        [id |-> IF cfg[i].id = "" THEN cfg[i].url ELSE cfg[i].id,
         url |-> cfg[i].url,
         healthy |-> TRUE,
         connections |-> 0]]

VARIABLES
    backends,         \* self.backends: the list of backend records
    current_backend,  \* self.current_backend: the round-robin cursor
    requests,         \* the handle_request coroutines, one per inbound request
    probe_i,          \* health_check: the index of the backend being probed
    probe_pc,         \* health_check: "get" (awaiting the probe) or "sleep"
    round_probed,     \* the backends probed so far in this round
    since_timeout,    \* per backend, since the last /_health read: "none",
                      \* "timeout" (a forward to it timed out) or "recovered"
                      \* (and a probe of it has answered 200 since)
    event,            \* what the last step received and what it answered
    selected,         \* how many calls of select_backend have returned a backend
    sanitize,         \* process_headers on its own: the request and its result
    stream            \* the response body of one exchange, on its own

vars == <<backends, current_backend, requests, probe_i, probe_pc,
          round_probed, since_timeout, event, selected, sanitize, stream>>

\* the variables of the pool, the requests and the prober
pool_vars == <<backends, current_backend, requests, probe_i, probe_pc,
               round_probed, since_timeout, event, selected>>

Backends == 1..NumBackends

NoEvent ==
    [type |-> "none", backend |-> None, status |-> None,
     exc |-> "", method |-> "", path |-> "", url |-> "", view |-> <<>>]

\* a request not yet received.  backend and upstream are the coroutine's
\* locals backend and response.status; selections and calls count its calls
\* of select_backend and of session.request while it runs
NewRequest ==
    [pc |-> "new", backend |-> None, upstream |-> None,
     selections |-> 0, calls |-> 0]

\* a request whose handler has returned or raised
Finished ==
    [pc |-> "done", backend |-> None, upstream |-> None,
     selections |-> 0, calls |-> 0]

\* the proxy after __init__, with the health_check task at its first probe
PoolInit ==
    /\ backends = ParseBackends(Config)
    /\ current_backend = 0
    /\ requests = [r \in Requests |-> NewRequest]
    /\ probe_i = 1
    /\ probe_pc = "get"
    /\ round_probed = {}
    /\ since_timeout = [b \in Backends |-> "none"]
    /\ event = NoEvent
    /\ selected = 0

\* no header set and no body under study
Idle == [pc |-> "idle"]

Init ==
    /\ PoolInit
    /\ sanitize = Idle
    /\ stream = Idle

(***************************************************************************)
(* The backend pool: select_backend and the writes to a backend record.    *)
(***************************************************************************)
\* [b for b in self.backends if b['healthy']]: the indices of the healthy
\* backends, in list order
Available(bs) ==
    LET F[i \in 0..Len(bs)] ==
            IF i = 0 THEN <<>>
            ELSE IF bs[i].healthy THEN Append(F[i - 1], i) ELSE F[i - 1]
    IN  F[Len(bs)]

\* self.current_backend % len(available); Python lists count from 0
AvailableIndex(cur, n) == (cur % n) + 1

AdvanceCursorStuck(cur) == cur

\* self.current_backend += 1
AdvanceCursor(cur) == cur + 1

SelectBackendFromAll(bs, cur) ==
    LET available == [i \in 1..Len(bs) |-> i]
    IN  [backend |-> available[AvailableIndex(cur, Len(available))],
         cursor |-> AdvanceCursor(cur)]

SelectBackendCountsMiss(bs, cur) ==
    LET available == Available(bs)
    IN  IF available = <<>>
        THEN [backend |-> None, cursor |-> AdvanceCursor(cur)]
        ELSE [backend |-> available[AvailableIndex(cur, Len(available))],
              cursor |-> AdvanceCursor(cur)]

SelectBackendWraps(bs, cur) ==
    LET available == Available(bs)
    IN  IF available = <<>>
        THEN [backend |-> None, cursor |-> cur]
        ELSE [backend |-> available[AvailableIndex(cur, Len(available))],
              cursor |-> AdvanceCursor(cur) % Len(available)]

\* select_backend: the backend returned (None if none is healthy) and the
\* cursor it leaves
SelectBackend(bs, cur) ==
    LET available == Available(bs)
    IN  IF available = <<>>
        THEN [backend |-> None, cursor |-> cur]
        ELSE [backend |-> available[AvailableIndex(cur, Len(available))],
              cursor |-> AdvanceCursor(cur)]

\* backend['connections'] += 1
Acquire(bs, b) == [bs EXCEPT ![b].connections = @ + 1]

ReleaseForgotten(bs, b) == bs

\* finally: backend['connections'] -= 1
Release(bs, b) == [bs EXCEPT ![b].connections = @ - 1]

ExitReleaseOnReturnOnly(bs, b, status) ==
    IF status = None THEN bs ELSE Release(bs, b)

\* the finally clause runs however the try block is left: with a return
\* (status) or with an exception no clause caught (None)
ExitRelease(bs, b, status) == Release(bs, b)

MarkUnhealthyDropsCount(bs, b) ==
    [bs EXCEPT ![b].healthy = FALSE, ![b].connections = 0]

MarkUnhealthyInverted(bs, b) == [bs EXCEPT ![b].healthy = TRUE]

\* backend['healthy'] = False
MarkUnhealthy(bs, b) == [bs EXCEPT ![b].healthy = FALSE]

(***************************************************************************)
(* The except clauses of handle_request, tried in order: the status of     *)
(* the response returned and whether the backend is marked unhealthy.  An  *)
(* exception neither clause matches propagates (status None).              *)
(***************************************************************************)
ExceptClauseBroadFirst(exc) ==
    IF IsInstance(exc, "Exception") THEN [status |-> 502, unhealthy |-> TRUE]
    ELSE IF IsInstance(exc, "TimeoutError") THEN [status |-> 504, unhealthy |-> TRUE]
    ELSE [status |-> None, unhealthy |-> FALSE]

ExceptClauseTimeoutKeepsHealthy(exc) ==
    IF IsInstance(exc, "TimeoutError") THEN [status |-> 504, unhealthy |-> FALSE]
    ELSE IF IsInstance(exc, "Exception") THEN [status |-> 502, unhealthy |-> TRUE]
    ELSE [status |-> None, unhealthy |-> FALSE]

ExceptClause(exc) ==
    IF IsInstance(exc, "TimeoutError") THEN [status |-> 504, unhealthy |-> TRUE]
    ELSE IF IsInstance(exc, "Exception") THEN [status |-> 502, unhealthy |-> TRUE]
    ELSE [status |-> None, unhealthy |-> FALSE]

AfterFailureRetry(req) ==
    [req EXCEPT !.pc = "new", !.backend = None, !.upstream = None]

\* the return that ends handle_request after an except clause (or the
\* exception leaving it): the coroutine is over
AfterFailure(req) == Finished

(***************************************************************************)
(* The routes of create_app: add_get('/_health') serves GET (and HEAD),    *)
(* every other method and path falls to the catch-all route.               *)
(***************************************************************************)
Route(method, path) ==
    IF path = "/_health" /\ method \in {"GET", "HEAD"}
    THEN "health_handler"
    ELSE "handle_request"

HealthViewAll(bs) ==
    LET healthy == \A i \in 1..Len(bs) : bs[i].healthy
    IN  [status |-> IF healthy THEN "healthy" ELSE "unhealthy",
         code |-> IF healthy THEN 200 ELSE 503,
         backends |-> [i \in 1..Len(bs) |->
                          [id |-> bs[i].id, healthy |-> bs[i].healthy,
                           connections |-> bs[i].connections]]]

\* health_handler: the JSON body and the status code
HealthView(bs) ==
    LET healthy == \E i \in 1..Len(bs) : bs[i].healthy
    IN  [status |-> IF healthy THEN "healthy" ELSE "unhealthy",
         code |-> IF healthy THEN 200 ELSE 503,
         backends |-> [i \in 1..Len(bs) |->
                          [id |-> bs[i].id, healthy |-> bs[i].healthy,
                           connections |-> bs[i].connections]]]

\* whether an exception reports that the outbound timeout was exceeded
IsTimeout(exc) == exc \in {"TimeoutError", "ServerTimeoutError"}

\* the next inbound request arrives; requests are numbered as they arrive
Arrives(r) ==
    /\ requests[r].pc = "new"
    /\ \A q \in Requests : q < r => requests[q].pc # "new"

(***************************************************************************)
(* An inbound request to GET /_health: health_handler runs to its end.     *)
(***************************************************************************)
HealthRequest(r, method, path) ==
    /\ Arrives(r)
    /\ Route(method, path) = "health_handler"
    /\ requests' = [requests EXCEPT ![r] = Finished]
    /\ event' = [NoEvent EXCEPT !.type = "health",
                                !.method = method, !.path = path,
                                !.status = HealthView(backends).code,
                                !.view = HealthView(backends)]
    /\ since_timeout' = [b \in Backends |-> "none"]
    /\ UNCHANGED <<backends, current_backend, probe_i, probe_pc, round_probed,
                   selected, sanitize, stream>>

(***************************************************************************)
(* An inbound request on the catch-all route: handle_request from its      *)
(* start to its first await (the outbound session.request), or to the 503  *)
(* it returns when no backend is selected.                                 *)
(***************************************************************************)
ProxyRequest(r, method, path) ==
    /\ Arrives(r)
    /\ Route(method, path) = "handle_request"
    /\ LET sel == SelectBackend(backends, current_backend)
           b == sel.backend
       IN  /\ current_backend' = sel.cursor
           /\ selected' = IF b = None THEN selected ELSE selected + 1
           /\ IF b = None
              THEN /\ requests' = [requests EXCEPT ![r] = Finished]
                   /\ backends' = backends
                   /\ event' = [NoEvent EXCEPT !.type = "response",
                                               !.method = method, !.path = path,
                                               !.status = 503]
              ELSE /\ requests' = [requests EXCEPT
                                      ![r].pc = "calling",
                                      ![r].backend = b,
                                      ![r].selections = @ + 1,
                                      ![r].calls = @ + 1]
                   /\ backends' = Acquire(backends, b)
                   /\ event' = [NoEvent EXCEPT !.type = "forward",
                                               !.method = method, !.path = path,
                                               !.backend = b,
                                               !.url = backends[b].url]
    /\ UNCHANGED <<probe_i, probe_pc, round_probed, since_timeout, sanitize, stream>>

\* session.request returns: the backend's status and headers have arrived,
\* the StreamResponse is built with them and prepare() has passed them on to
\* the caller; the body is streamed next
ResponseHeaders(r, status) ==
    /\ requests[r].pc = "calling"
    /\ requests' = [requests EXCEPT ![r].pc = "streaming", ![r].upstream = status]
    /\ event' = NoEvent
    /\ UNCHANGED <<backends, current_backend, probe_i, probe_pc, round_probed,
                   since_timeout, selected, sanitize, stream>>

\* the body is through and write_eof() returns: return client_response,
\* then the finally clause
Completed(r) ==
    /\ requests[r].pc = "streaming"
    /\ requests' = [requests EXCEPT ![r] = Finished]
    /\ backends' = Release(backends, requests[r].backend)
    /\ event' = [NoEvent EXCEPT !.type = "response",
                                !.backend = requests[r].backend,
                                !.status = requests[r].upstream]
    /\ UNCHANGED <<current_backend, probe_i, probe_pc, round_probed, since_timeout,
                   selected, sanitize, stream>>

\* what the awaits of the try block can raise: session.request and then
\* prepare() while the call is out, the reads of the body and the writes to
\* the caller while streaming
Raisable(pc) ==
    CASE pc = "calling" -> OutboundErrors \cup InboundErrors \cup {"CancelledError"}
      [] pc = "streaming" -> BodyErrors \cup InboundErrors \cup {"CancelledError"}
      [] OTHER -> {}

\* an await inside the try block raises: the matching except clause, then
\* the finally clause
Raised(r, exc) ==
    /\ exc \in Raisable(requests[r].pc)
    /\ LET b == requests[r].backend
           how == ExceptClause(exc)
       IN  /\ backends' = ExitRelease(IF how.unhealthy
                                      THEN MarkUnhealthy(backends, b)
                                      ELSE backends, b, how.status)
           /\ requests' = [requests EXCEPT ![r] = AfterFailure(@)]
           /\ event' = [NoEvent EXCEPT
                           !.type = IF how.status = None THEN "raised" ELSE "response",
                           !.backend = b, !.status = how.status,
                           !.exc = exc]
           /\ since_timeout' = IF IsTimeout(exc)
                               THEN [since_timeout EXCEPT ![b] = "timeout"]
                               ELSE since_timeout
    /\ UNCHANGED <<current_backend, probe_i, probe_pc, round_probed,
                   selected, sanitize, stream>>

(***************************************************************************)
(* health_check: one probe per backend of the list, then a sleep.          *)
(***************************************************************************)
ProbeOutcomes ==
    [status : ProbeStatuses, exc : {""}] \cup [status : {None}, exc : ProbeErrors]

ProbeHealthyAnyResponse(outcome) ==
    outcome.exc = ""

\* the value health_check assigns to backend['healthy']
ProbeHealthy(outcome) ==
    IF outcome.exc = "" THEN outcome.status = 200 ELSE FALSE

ProbeWriteRebuilds(bs, i, healthy) ==
    [bs EXCEPT ![i].healthy = healthy, ![i].connections = 0]

\* backend['healthy'] = ... in health_check
ProbeWrite(bs, i, healthy) == [bs EXCEPT ![i].healthy = healthy]

AfterProbeStopsOnError(i, n, outcome) ==
    IF outcome.exc # "" THEN [i |-> i, pc |-> "stopped"]
    ELSE IF i < n THEN [i |-> i + 1, pc |-> "get"]
    ELSE [i |-> i, pc |-> "sleep"]

\* where health_check goes after the probe of backend i of n, whatever its
\* outcome: on to the next backend of the for loop, or to the sleep
AfterProbe(i, n, outcome) ==
    IF i < n THEN [i |-> i + 1, pc |-> "get"]
    ELSE [i |-> i, pc |-> "sleep"]

\* the probe of backends[probe_i] ends, with a response or an exception
ProbeDone(outcome) ==
    /\ probe_pc = "get"
    /\ backends' = ProbeWrite(backends, probe_i, ProbeHealthy(outcome))
    /\ round_probed' = round_probed \cup {probe_i}
    /\ probe_i' = AfterProbe(probe_i, Len(backends), outcome).i
    /\ probe_pc' = AfterProbe(probe_i, Len(backends), outcome).pc
    /\ event' = [NoEvent EXCEPT !.type = "probe", !.backend = probe_i,
                                !.status = outcome.status, !.exc = outcome.exc]
    /\ since_timeout' = IF outcome.status = 200 /\ since_timeout[probe_i] = "timeout"
                        THEN [since_timeout EXCEPT ![probe_i] = "recovered"]
                        ELSE since_timeout
    /\ UNCHANGED <<current_backend, requests, selected, sanitize, stream>>

\* asyncio.sleep(10) returns: the next round starts with the first backend
ProbeWake ==
    /\ probe_pc = "sleep"
    /\ probe_i' = 1
    /\ probe_pc' = "get"
    /\ round_probed' = {}
    /\ event' = NoEvent
    /\ UNCHANGED <<backends, current_backend, requests, since_timeout,
                   selected, sanitize, stream>>

Next ==
    \/ \E r \in Requests, method \in Methods, path \in Paths :
          HealthRequest(r, method, path)
    \/ \E r \in Requests, method \in Methods, path \in Paths :
          ProxyRequest(r, method, path)
    \/ \E r \in Requests, status \in BackendStatuses : ResponseHeaders(r, status)
    \/ \E r \in Requests : Completed(r)
    \/ \E r \in Requests, exc \in OutboundErrors \cup BodyErrors \cup InboundErrors
                                   \cup {"CancelledError"} : Raised(r, exc)
    \/ \E outcome \in ProbeOutcomes : ProbeDone(outcome)
    \/ ProbeWake

Spec == Init /\ [][Next]_vars

(***************************************************************************)
(* Steps, as the properties below name them.                               *)
(***************************************************************************)
\* request r enters handle_request in this step
Enters(r) ==
    /\ requests[r].pc = "new"
    /\ requests'[r].pc # "new"
    /\ event'.type # "health"

InFlight(r) == requests[r].pc \in {"calling", "streaming"}

NoneHealthy == \A b \in Backends : ~backends[b].healthy

\* C1: select_backend returns only a backend whose healthy flag is true when
\* it is called, and no backend at all when none is healthy: a request that
\* enters handle_request goes out to a backend that is healthy at that
\* moment, or to none.
C1_SelectsOnlyHealthy ==
    [][\A r \in Requests :
          Enters(r) =>
             /\ requests'[r].backend # None => backends[requests'[r].backend].healthy
             /\ NoneHealthy => requests'[r].backend = None /\ ~InFlight(r)']_vars

\* a selection made while some backend was unhealthy
C1_Witness ==
    /\ event.type = "forward"
    /\ \E b \in Backends : ~backends[b].healthy
    /\ backends[event.backend].healthy

\* n consecutive calls of select_backend with the flags left alone: the
\* backends they return, in order
RECURSIVE SelectRun(_, _, _)
SelectRun(bs, cur, n) ==
    IF n = 0 THEN <<>>
    ELSE LET sel == SelectBackend(bs, cur)
         IN  <<sel.backend>> \o SelectRun(bs, sel.cursor, n - 1)

\* C2: with N >= 1 healthy backends and the healthy set unchanged, N
\* consecutive selections return each healthy backend exactly once, in the
\* configured order taken cyclically from index (cursor mod N).
C2_RoundRobinCycle ==
    LET available == Available(backends)
        N == Len(available)
        run == SelectRun(backends, current_backend, N)
    IN  N >= 1 =>
           /\ \A k \in 1..N : run[k] = available[((current_backend + k - 1) % N) + 1]
           /\ \A b \in Backends :
                 backends[b].healthy => Cardinality({k \in 1..N : run[k] = b}) = 1
           /\ \A k \in 1..N : backends[run[k]].healthy

\* selections have moved the cursor into the middle of a cycle of two or more
C2_Witness ==
    /\ Len(Available(backends)) >= 2
    /\ current_backend % Len(Available(backends)) # 0

\* C3: connections[b] is the number of forwarding attempts in flight to b,
\* so never negative, and 0 when none is in flight.
C3_ConnectionsCountInFlight ==
    \A b \in Backends :
        backends[b].connections =
            Cardinality({r \in Requests : InFlight(r) /\ requests[r].backend = b})

\* an attempt has ended in an except clause and the count is back to the
\* other attempt still in flight to the same backend
C3_Witness ==
    /\ event.type = "response"
    /\ event.exc # ""
    /\ backends[event.backend].connections = 1

\* C4: a healthy flag goes from false to true only in a probe step whose
\* response status is 200; no step of handle_request sets one to true.
C4_OnlyProbeRestores ==
    [][\A b \in Backends :
          ~backends[b].healthy /\ backends'[b].healthy =>
             event'.type = "probe" /\ event'.backend = b /\ event'.status = 200]_vars

\* a forward completed with the backend's 200 on a backend marked unhealthy
\* while the request was in flight, and the flag is still false
C4_Witness ==
    /\ event.type = "response"
    /\ event.exc = ""
    /\ event.status = 200
    /\ event.backend # None
    /\ ~backends[event.backend].healthy

\* C5: with every backend unhealthy, handle_request answers 503 without an
\* outbound call and without changing a flag, a counter or the cursor.
C5_NoBackend503 ==
    [][\A r \in Requests :
          Enters(r) /\ NoneHealthy =>
             /\ event'.type = "response"
             /\ event'.status = 503
             /\ event'.url = ""
             /\ ~InFlight(r)'
             /\ backends' = backends
             /\ current_backend' = current_backend]_vars

\* a 503 answered after the cursor had advanced
C5_Witness ==
    /\ event.type = "response"
    /\ event.status = 503
    /\ current_backend > 0
    /\ NoneHealthy

\* the outbound call of the step just taken exceeded the timeout
TimedOut == event.type \in {"response", "raised"} /\ IsTimeout(event.exc)

\* C6, as stated: an outbound timeout is answered 504 and sets the
\* backend's flag to false, and the next /_health read reports that backend
\* with healthy = false.
C6_AsStated ==
    [][/\ TimedOut' => event'.status = 504 /\ ~backends'[event'.backend].healthy
       /\ event'.type = "health" =>
             \A b \in Backends :
                since_timeout[b] # "none" => ~event'.view.backends[b].healthy]_vars

\* C6, amended: an outbound timeout is answered 504 and sets the backend's
\* flag to false, and the next /_health read reports that backend with
\* healthy = false unless a probe of it has answered 200 in between.
C6_TimeoutMarksUnhealthy ==
    [][/\ TimedOut' => event'.status = 504 /\ ~backends'[event'.backend].healthy
       /\ event'.type = "health" =>
             \A b \in Backends :
                since_timeout[b] = "timeout" => ~event'.view.backends[b].healthy]_vars

\* a forward has timed out and no /_health read has followed yet
C6_Witness ==
    /\ TimedOut
    /\ event.status = 504
    /\ since_timeout[event.backend] = "timeout"

\* C7: an outbound failure other than a timeout is answered 502 and sets
\* the backend's flag to false; a timeout is never answered 502 and another
\* failure never 504.
C7_FailureClassification ==
    event.type \in {"response", "raised"} /\ event.exc \in OutboundErrors \cup BodyErrors =>
       /\ ~IsTimeout(event.exc) => event.status = 502
       /\ IsTimeout(event.exc) => event.status # 502
       /\ ~IsTimeout(event.exc) => event.status # 504
       /\ ~backends[event.backend].healthy

\* a connection failure answered 502
C7_Witness ==
    /\ event.type = "response"
    /\ event.exc = "ClientConnectorError"
    /\ event.status = 502
    /\ ~backends[event.backend].healthy

\* C8: an inbound request selects once and calls out at most once, to the
\* backend selected; once its handler has ended, after a failure too, it
\* selects and contacts nothing more.
C8_NoRetry ==
    [][\A r \in Requests :
          /\ requests'[r].selections <= 1
          /\ requests'[r].calls <= 1
          /\ InFlight(r)' => requests'[r].selections = 1 /\ requests'[r].calls = 1
          /\ InFlight(r) => requests'[r].backend \in {requests[r].backend, None}
          /\ requests[r].pc = "done" => requests'[r] = requests[r]
          /\ Enters(r) /\ InFlight(r)' =>
                /\ requests'[r].backend = SelectBackend(backends, current_backend).backend
                /\ event'.url = backends[requests'[r].backend].url
          /\ InFlight(r) => requests'[r].pc # "new"]_vars

\* an attempt has failed while another backend was healthy, and the request
\* is over
C8_Witness ==
    /\ event.type = "response"
    /\ event.status \in {502, 504}
    /\ \E b \in Backends : backends[b].healthy
    /\ \A r \in Requests : ~InFlight(r)

\* C9: a /_health read answers 'healthy' with 200 exactly if some backend is
\* healthy at that moment and 'unhealthy' with 503 otherwise, lists every
\* configured backend in configured order with its id, flag and connection
\* count, and changes no pool state.
C9_AggregateHealth ==
    [][event'.type = "health" =>
          LET view == event'.view
              any == \E b \in Backends : backends[b].healthy
          IN  /\ any => view.status = "healthy" /\ view.code = 200
              /\ ~any => view.status = "unhealthy" /\ view.code = 503
              /\ event'.status = view.code
              /\ Len(view.backends) = Len(Config)
              /\ \A i \in 1..Len(Config) :
                    /\ view.backends[i].id =
                          (IF Config[i].id = "" THEN Config[i].url ELSE Config[i].id)
                    /\ view.backends[i].healthy = backends[i].healthy
                    /\ view.backends[i].connections = backends[i].connections
              /\ backends' = backends
              /\ current_backend' = current_backend]_vars

\* a read that answered 200 with one backend unhealthy and a forward in flight
C9_Witness ==
    /\ event.type = "health"
    /\ event.status = 200
    /\ \E b \in Backends : ~backends[b].healthy
    /\ \E b \in Backends : backends[b].connections > 0

\* C10: a probe round probes every configured backend, the unhealthy ones
\* too, and each probe leaves the backend's flag true exactly if the probe
\* response status is 200: another status, a timeout or a connection
\* failure leaves it false.
C10_ProbeSetsFlag ==
    [][/\ event'.type = "probe" =>
             /\ event'.backend = probe_i
             /\ probe_pc = "get"
             /\ backends'[probe_i].healthy = (event'.status = 200)
             /\ event'.exc # "" => event'.status = None
             /\ probe_i' = probe_i + 1 \/ (probe_i = NumBackends /\ probe_pc' = "sleep")
       /\ probe_pc' = "sleep" => round_probed' = Backends
       /\ probe_pc = "sleep" /\ probe_pc' = "get" => probe_i' = 1 /\ round_probed' = {}]_vars

\* a probe has answered 200 for a backend that a timed-out forward had
\* marked unhealthy
C10_Witness ==
    /\ event.type = "probe"
    /\ event.status = 200
    /\ since_timeout[event.backend] = "recovered"
    /\ backends[event.backend].healthy

(***************************************************************************)
(* The prober under fair scheduling: the event loop runs every ready task, *)
(* session.get ends within its 5 s timeout with a response or an           *)
(* exception, and asyncio.sleep(10) returns.                               *)
(***************************************************************************)
ProbeStep == \E outcome \in ProbeOutcomes : ProbeDone(outcome)

FairSpec == Spec /\ WF_vars(ProbeStep) /\ WF_vars(ProbeWake)

\* the last step was a probe of backend b
Probed(b) == event.type = "probe" /\ event.backend = b

\* the last step was not a probe of b answered otherwise than with 200
Answers200(b) == Probed(b) => event.status = 200

\* the last step was not a forward to b that failed
NoFailedForward(b) ==
    ~(event.type \in {"response", "raised"} /\ event.exc # "" /\ event.backend = b)

\* C11: a probe failure never stops the probe loop: under fair scheduling
\* every backend is probed again and again, and a backend that from some
\* point on answers its probes with 200 and has no failed forward is healthy
\* from some point on.
C11_ProbeLoopNeverStops ==
    \A b \in Backends :
        /\ []<>Probed(b)
        /\ <>[](Answers200(b) /\ NoFailedForward(b)) => <>[]backends[b].healthy

\* the first backend is unhealthy by a failed probe alone (no request has
\* arrived), and the prober has gone on to probe the last backend
C11_Witness ==
    /\ Probed(NumBackends)
    /\ ~backends[1].healthy
    /\ \A r \in Requests : requests[r].pc = "new"

(***************************************************************************)
(* process_headers on its own.  A header set is a Python dict: a function  *)
(* from header names, spelled as request.headers holds them, to values.    *)
(* dict keys are compared as plain strings, letter case included.          *)
(***************************************************************************)
\* str.lower() on the header names of this model
Lower(name) ==
    CASE name = "Connection" -> "connection"
      [] name = "Keep-Alive" -> "keep-alive"
      [] name = "Transfer-Encoding" -> "transfer-encoding"
      [] name = "Upgrade" -> "upgrade"
      [] name = "X-Forwarded-For" -> "x-forwarded-for"
      [] name = "X-Forwarded-Proto" -> "x-forwarded-proto"
      [] name = "X-Real-IP" -> "x-real-ip"
      [] name = "Host" -> "host"
      [] OTHER -> name

\* the spellings a client sends each header in; "" is the header left out
Spellings(field) ==
    CASE field = "connection" -> {"", "Connection", "connection"}
      [] field = "keep-alive" -> {"", "Keep-Alive", "keep-alive"}
      [] field = "transfer-encoding" -> {"", "Transfer-Encoding", "transfer-encoding"}
      [] field = "upgrade" -> {"", "Upgrade", "upgrade"}
      [] field = "x-forwarded-for" -> {"", "X-Forwarded-For", "x-forwarded-for"}

\* what the client sends in each header
SentValue(name) ==
    CASE Lower(name) = "connection" -> "keep-alive"
      [] Lower(name) = "keep-alive" -> "timeout=5"
      [] Lower(name) = "transfer-encoding" -> "chunked"
      [] Lower(name) = "upgrade" -> "websocket"
      [] Lower(name) = "x-forwarded-for" -> "203.0.113.9"
      [] OTHER -> "proxy.example"

\* request.remote: the peer address, or "" when the transport gives none
Remotes == {"", "198.51.100.4"}

\* the inbound requests process_headers is given
InboundRequests ==
    {[headers |-> [n \in ({"Host", c, k, t, u, x} \ {""}) |-> SentValue(n)],
      remote |-> rem, scheme |-> "http"] :
        c \in Spellings("connection"), k \in Spellings("keep-alive"),
        t \in Spellings("transfer-encoding"), u \in Spellings("upgrade"),
        x \in Spellings("x-forwarded-for"), rem \in Remotes}

hop_by_hop == <<"connection", "keep-alive", "transfer-encoding", "upgrade">>

\* headers.pop(key, None)
DictPop(d, key) == [n \in DOMAIN d \ {key} |-> d[n]]

\* headers[key] = value
DictSet(d, key, value) ==
    [n \in DOMAIN d \cup {key} |-> IF n = key THEN value ELSE d[n]]

RECURSIVE PopAll(_, _)
\* for header in keys: headers.pop(header, None)
PopAll(d, keys) ==
    IF keys = <<>> THEN d ELSE PopAll(DictPop(d, Head(keys)), Tail(keys))

ProcessHeaders(request) ==
    LET headers   == PopAll(request.headers, hop_by_hop)
        client_ip == IF request.remote = "" THEN "127.0.0.1" ELSE request.remote
    IN  DictSet(DictSet(DictSet(headers, "X-Forwarded-For", client_ip),
                        "X-Forwarded-Proto", request.scheme),
                "X-Real-IP", client_ip)

SanitizeInit ==
    /\ PoolInit
    /\ stream = Idle
    /\ sanitize \in {[pc |-> "request", request |-> rq, headers |-> <<>>] :
                        rq \in InboundRequests}

\* handle_request calls process_headers(request)
CallProcessHeaders ==
    /\ sanitize.pc = "request"
    /\ sanitize' = [sanitize EXCEPT !.pc = "built",
                                    !.headers = ProcessHeaders(sanitize.request)]
    /\ UNCHANGED <<pool_vars, stream>>

SanitizeNext == CallProcessHeaders

SanitizeSpec == SanitizeInit /\ [][SanitizeNext]_vars

\* header set d has the header, in some letter case
HasHeader(d, header) == \E n \in DOMAIN d : Lower(n) = header

\* the values header set d carries for the header, over all letter cases
HeaderNames(d, header) == {n \in DOMAIN d : Lower(n) = header}

\* C12: when the inbound request has a Connection header, in whatever letter
\* case, the outbound header set has none of Connection, Keep-Alive,
\* Transfer-Encoding and Upgrade; and the outbound header set always has
\* exactly one X-Forwarded-For, whose value is the caller's address, or
\* 127.0.0.1 when it is unknown.
C12_AsStated ==
    sanitize.pc = "built" =>
        LET inbound   == sanitize.request.headers
            outbound  == sanitize.headers
            client_ip == IF sanitize.request.remote = "" THEN "127.0.0.1"
                         ELSE sanitize.request.remote
        IN  /\ HasHeader(inbound, "connection") =>
                  \A i \in 1..Len(hop_by_hop) : ~HasHeader(outbound, hop_by_hop[i])
            /\ Cardinality(HeaderNames(outbound, "x-forwarded-for")) = 1
            /\ \A n \in HeaderNames(outbound, "x-forwarded-for") :
                  outbound[n] = client_ip

\* C13: an inbound request whose path is not /_health is handled by
\* handle_request, whatever its method; a request to /_health is answered
\* with the aggregate view and is never forwarded: no selection, no cursor
\* advance, no outbound call.
C13_AsStated ==
    [][\A r \in Requests :
          requests[r].pc = "new" /\ requests'[r].pc # "new" =>
             IF event'.path = "/_health"
             THEN /\ event'.type = "health"
                  /\ event'.view = HealthView(backends)
                  /\ current_backend' = current_backend
                  /\ selected' = selected
                  /\ backends' = backends
                  /\ ~InFlight(r)'
             ELSE event'.type \in {"forward", "response"}]_vars

\* C14: when the handling task of an attempt in flight is cancelled, the
\* attempt is over (the outbound call is given up with it) and the count of
\* its backend goes down by exactly one, whether or not the backend had
\* answered; a count goes down only with the end of an attempt in flight to
\* that backend, and by one.
C14_CancelReleasesOnce ==
    [][/\ \A r \in Requests :
             InFlight(r) /\ requests'[r] # requests[r] /\ event'.exc = "CancelledError" =>
                LET b == requests[r].backend
                IN  /\ requests'[r] = Finished
                    /\ event'.backend = b
                    /\ backends'[b].connections = backends[b].connections - 1
                    /\ \A c \in Backends \ {b} :
                          backends'[c].connections = backends[c].connections
       /\ \A b \in Backends :
             backends'[b].connections < backends[b].connections =>
                /\ backends'[b].connections = backends[b].connections - 1
                /\ \E r \in Requests :
                      InFlight(r) /\ requests[r].backend = b /\ ~InFlight(r)']_vars

\* an attempt in flight was cancelled; its backend counts no attempt any more
C14_Witness ==
    /\ event.type = "raised"
    /\ event.exc = "CancelledError"
    /\ backends[event.backend].connections = 0
    /\ \A r \in Requests : ~InFlight(r)

\* C15: the cursor never goes down; a selection that returns a backend reads
\* the cursor, which is the number of selections that returned a backend
\* before it, and leaves it one higher; a selection that returns none and
\* every other step leave it as it is: the cursor is the number of
\* selections that have returned a backend.
C15_CursorCountsSelections ==
    [][/\ current_backend = selected
       /\ current_backend' = selected'
       /\ current_backend' >= current_backend
       /\ \A r \in Requests :
             Enters(r) =>
                IF InFlight(r)'
                THEN /\ current_backend' = current_backend + 1
                     /\ requests'[r].backend =
                           Available(backends)[(current_backend % Len(Available(backends))) + 1]
                ELSE current_backend' = current_backend
       /\ (\A r \in Requests : ~Enters(r)) => current_backend' = current_backend]_vars

\* a selection has returned none after one that returned a backend, and the
\* cursor has kept its value
C15_Witness ==
    /\ event.type = "response"
    /\ event.status = 503
    /\ current_backend = 1
    /\ selected = 1

(***************************************************************************)
(* The body of one exchange on its own: lines 74-85 of handle_request.     *)
(* A byte of the backend's body is named by its position in the body, a    *)
(* run of bytes by the position of its first byte and its length.          *)
(***************************************************************************)
\* response.content.iter_chunked(8192)
ChunkSize == 8192

\* the longest body is this many full chunks and one byte
MaxChunks == 2

BodyLengths == {0, 1, ChunkSize, ChunkSize + 1, MaxChunks * ChunkSize + 1}

\* how many bytes the connection to the backend delivers at a time
Arrivals == {5000, ChunkSize, 3 * ChunkSize}

Min(a, b) == IF a <= b THEN a ELSE b

NoChunk == [from |-> 0, len |-> 0]

ReadSizeWholeBuffer(buffered, n) == buffered

\* StreamReader.read(n) with data buffered: at most n bytes of it
ReadSize(buffered, n) == Min(buffered, n)

StreamInit ==
    /\ PoolInit
    /\ sanitize = Idle
    /\ stream \in {[pc |-> "request", status |-> s, total |-> n, received |-> 0,
                    offset |-> 0, chunk |-> NoChunk, written |-> <<>>,
                    sent |-> None] : s \in BackendStatuses, n \in BodyLengths}

\* session.request returns with the backend's status; the StreamResponse is
\* built with it and prepared
Prepare ==
    /\ stream.pc = "request"
    /\ stream' = [stream EXCEPT !.pc = "read", !.sent = stream.status]
    /\ UNCHANGED <<pool_vars, sanitize>>

\* bytes of the body arrive from the backend into response.content
DataReceived(n) ==
    /\ stream.pc \in {"request", "read", "write"}
    /\ stream.received < stream.total
    /\ stream' = [stream EXCEPT !.received = Min(stream.total, @ + n)]
    /\ UNCHANGED <<pool_vars, sanitize>>

\* the async for takes the next chunk
ReadChunk ==
    /\ stream.pc = "read"
    /\ stream.received > stream.offset
    /\ LET len == ReadSize(stream.received - stream.offset, ChunkSize)
       IN  stream' = [stream EXCEPT !.pc = "write",
                                    !.chunk = [from |-> stream.offset, len |-> len],
                                    !.offset = @ + len]
    /\ UNCHANGED <<pool_vars, sanitize>>

\* await client_response.write(chunk)
WriteChunk ==
    /\ stream.pc = "write"
    /\ stream' = [stream EXCEPT !.pc = "read",
                                !.written = Append(@, stream.chunk),
                                !.chunk = NoChunk]
    /\ UNCHANGED <<pool_vars, sanitize>>

\* the body has ended and all of it was read: the loop ends, write_eof()
WriteEof ==
    /\ stream.pc = "read"
    /\ stream.received = stream.total
    /\ stream.offset = stream.total
    /\ stream' = [stream EXCEPT !.pc = "done"]
    /\ UNCHANGED <<pool_vars, sanitize>>

StreamNext ==
    \/ Prepare
    \/ \E n \in Arrivals : DataReceived(n)
    \/ ReadChunk
    \/ WriteChunk
    \/ WriteEof

StreamSpec == StreamInit /\ [][StreamNext]_vars

\* the number of bytes written to the caller
WrittenBytes ==
    IF stream.written = <<>> THEN 0
    ELSE stream.written[Len(stream.written)].from
            + stream.written[Len(stream.written)].len

C17_PoolFixedProbeFrame ==
    [][/\ Len(backends') = Len(Config)
       /\ \A i \in 1..Len(Config) :
             /\ backends'[i].id = ParseBackends(Config)[i].id
             /\ backends'[i].url = ParseBackends(Config)[i].url
       /\ event'.type = "probe" =>
             /\ \A b \in Backends :
                   /\ backends'[b].connections = backends[b].connections
                   /\ b # event'.backend => backends'[b] = backends[b]
             /\ current_backend' = current_backend
             /\ requests' = requests]_vars

\* a failed probe has marked a backend that has an attempt in flight, and
\* the other backend is still healthy
C17_Witness ==
    /\ event.type = "probe"
    /\ event.exc # ""
    /\ ~backends[event.backend].healthy
    /\ backends[event.backend].connections > 0
    /\ \E b \in Backends \ {event.backend} : backends[b].healthy

\* the step is the prober's or another request's than r
StepOfOther(r) ==
    \/ event'.type = "probe"
    \/ \E q \in Requests \ {r} : requests'[q] # requests[q]

\* C18: a step of the prober or of another request that marks backend b
\* unhealthy while an attempt to b is in flight leaves that attempt as it
\* is, in flight to b and counted on b; an attempt in flight to a backend
\* marked unhealthy ends with its own outcome, the backend's status if the
\* exchange completes; and a selection made while b is marked does not
\* return b.
C18_MarkLeavesInFlightAlone ==
    [][\A r \in Requests :
          /\ InFlight(r) /\ StepOfOther(r) =>
                LET b == requests[r].backend
                IN  /\ requests'[r] = requests[r]
                    /\ backends'[b].connections >= 1
                    /\ backends'[b].connections >=
                          Cardinality({q \in Requests :
                                          InFlight(q)' /\ requests'[q].backend = b})
          /\ InFlight(r) /\ ~backends[requests[r].backend].healthy
               /\ requests'[r] # requests[r] /\ ~InFlight(r)' /\ event'.exc = "" =>
                /\ event'.type = "response"
                /\ event'.backend = requests[r].backend
                /\ event'.status = requests[r].upstream
          /\ Enters(r) /\ InFlight(r)' => backends[requests'[r].backend].healthy]_vars

\* a failed probe or another attempt's failure has just marked a backend
\* that has an attempt in flight
C18_Witness ==
    /\ event.type \in {"probe", "response"}
    /\ event.exc # ""
    /\ \E r \in Requests :
          /\ InFlight(r)
          /\ requests[r].backend = event.backend
          /\ ~backends[event.backend].healthy
          /\ backends[event.backend].connections >= 1

\* C19: once handle_request has passed the backend's status on to the caller
\* (the response is prepared, the body is being streamed), the request ends
\* with that status as its one result and never with a 502 or 504 of the
\* proxy's own besides, whatever happens to the outbound call meanwhile.
C19_AsStated ==
    [][\A r \in Requests :
          requests[r].pc = "streaming" /\ requests'[r] # requests[r]
            /\ event'.type = "response" =>
             event'.status = requests[r].upstream]_vars

\* C20: handle_request sets a healthy flag to false only when the outbound
\* exchange with the backend failed: an exception of the caller's side,
\* raised while the response is written back, leaves every flag as it was.
C20_AsStated ==
    [][event'.exc \in InboundErrors /\ event'.type # "probe" =>
          \A b \in Backends : backends'[b].healthy = backends[b].healthy]_vars
=============================================================================
